---- MODULE Spec2Model ----
(***************************************************************************)
(* Model of symflow's machine integers (src/math/num.rs), of the program   *)
(* dependence graph construction and export (src/flow/pdg.rs) and of the   *)
(* deterministic edge writer (src/flow/visualize.rs).                      *)
(*                                                                         *)
(* A u64 is a little-endian sequence of eight bytes, so that all four      *)
(* widths, 64 bits included, are computed exactly.                         *)
(***************************************************************************)
EXTENDS Integers, Sequences, FiniteSets, TLC

VARIABLES
    x,          \* the Integer an operation is called on
    last,       \* the last call: operation, operands, result, flags
    buf,        \* the slice to_bytes returned, and the Integer it encodes
    cfg,        \* the ControlFlowGraph handed to ProgramDependenceGraph::new
    ddg,        \* the DataDependencyGraph handed to it
    pc,         \* where the construction stands
    pdg,        \* the ProgramDependenceGraph built
    rendered,   \* the documents visualize has written for it
    save        \* the progress and outcome of save_as_pdf

numVars == <<x, last, buf>>

flowVars == <<cfg, ddg, pc, pdg, rendered, save>>

vars == <<x, last, buf, cfg, ddg, pc, pdg, rendered, save>>

-----------------------------------------------------------------------------
(* Bytes and words.                                                        *)

\* Number of values of a u8.
ByteRange == 256

\* Least u8 whose high bit is set.
ByteSignBit == 128

\* Bytes of the u64 that backs every Integer.
RawBytes == 8

DataType == {"N8", "N16", "N32", "N64"}

bytes(t) == CASE t = "N8" -> 1 [] t = "N16" -> 2 [] t = "N32" -> 4 [] t = "N64" -> 8

bits(t) == bytes(t) * 8

Fill(n, b) == [i \in 1..n |-> b]

IsNegative(v) == v[Len(v)] >= ByteSignBit

\* `n as uN` / `n as iN` of a u64 n: the low bytes are kept.
Truncate(raw, n) == SubSeq(raw, 1, n)

\* `v as u64` of an unsigned v: zero extension.
ZeroExtend(v, n) == v \o Fill(n - Len(v), 0)

\* `v as u64` of a signed v: sign extension.
SignExtend(v, n) == v \o Fill(n - Len(v), IF IsNegative(v) THEN ByteRange - 1 ELSE 0)

\* A value of the integer type the typed! macro selects for (data_type,
\* signed): the bytes of that width; signedness decides how it widens.
AsU64(v, signed) == IF signed THEN SignExtend(v, RawBytes) ELSE ZeroExtend(v, RawBytes)

\* The closure `cast` that typed! binds.
typed(data_type, n) == Truncate(n, bytes(data_type))

RECURSIVE RippleAdd(_, _, _)
RippleAdd(a, b, carry) ==
    IF a = <<>> THEN <<>>
    ELSE LET s == Head(a) + Head(b) + carry
         IN  <<s % ByteRange>> \o RippleAdd(Tail(a), Tail(b), s \div ByteRange)

not(a) == [i \in 1..Len(a) |-> (ByteRange - 1) - a[i]]

wrapping_add(a, b) == RippleAdd(a, b, 0)

wrapping_sub(a, b) == RippleAdd(a, not(b), 1)

RECURSIVE ColumnSum(_, _, _, _)
ColumnSum(a, b, k, i) ==
    IF i > k THEN 0 ELSE a[i] * b[k + 1 - i] + ColumnSum(a, b, k, i + 1)

RECURSIVE MulDigits(_, _, _, _)
MulDigits(a, b, k, carry) ==
    IF k > Len(a) THEN <<>>
    ELSE LET s == carry + ColumnSum(a, b, k, 1)
         IN  <<s % ByteRange>> \o MulDigits(a, b, k + 1, s \div ByteRange)

wrapping_mul(a, b) == MulDigits(a, b, 1, 0)

RECURSIVE AndByte(_, _, _)
AndByte(p, q, n) ==
    IF n = 0 THEN 0
    ELSE (p % 2) * (q % 2) + 2 * AndByte(p \div 2, q \div 2, n - 1)

bitand(a, b) == [i \in 1..Len(a) |-> AndByte(a[i], b[i], 8)]

bitor(a, b) == [i \in 1..Len(a) |-> a[i] + b[i] - AndByte(a[i], b[i], 8)]

\* overflowing_add as a slip would have it: the carry out of the unsigned
\* sum, as if typed! had been asked for the unsigned type.
overflowing_add_unsigned(a, b) ==
    RippleAdd(a \o <<0>>, b \o <<0>>, 0)[Len(a) + 1] # 0

\* iN::overflowing_add(a, b).1: the operands agree in sign and the wrapped
\* sum does not.
overflowing_add(a, b) ==
    /\ IsNegative(a) = IsNegative(b)
    /\ IsNegative(wrapping_add(a, b)) # IsNegative(a)

\* iN::overflowing_sub(a, b).1: the operands differ in sign and the wrapped
\* difference has the sign of b.
overflowing_sub(a, b) ==
    /\ IsNegative(a) # IsNegative(b)
    /\ IsNegative(wrapping_sub(a, b)) # IsNegative(a)

\* iN::overflowing_mul(a, b).1: the product taken at twice the width is not
\* the sign extension of its low half.
overflowing_mul(a, b) ==
    LET w == 2 * Len(a)
        p == wrapping_mul(SignExtend(a, w), SignExtend(b, w))
    IN  p # SignExtend(Truncate(p, Len(a)), w)

apply(op, a, b) ==
    CASE op = "wrapping_add" -> wrapping_add(a, b)
      [] op = "wrapping_sub" -> wrapping_sub(a, b)
      [] op = "wrapping_mul" -> wrapping_mul(a, b)
      [] op = "bitand" -> bitand(a, b)
      [] op = "bitor" -> bitor(a, b)

-----------------------------------------------------------------------------
(* Integer(DataType, u64) and its operations.                              *)

Integer(data_type, raw) == [ty |-> data_type, raw |-> raw]

Flags(zero, sign, overflow) == [zero |-> zero, sign |-> sign, overflow |-> overflow]

\* helper::check_compatible: the operation goes on only for equal types.
check_compatible(a, b) == a = b

from_bool(value, data_type) ==
    Integer(data_type, ZeroExtend(<<IF value THEN 1 ELSE 0>>, RawBytes))

from_bytes(bs, data_type) ==
    Integer(data_type, ZeroExtend(SubSeq(bs, 1, bytes(data_type)), RawBytes))

\* to_bytes as a slip would have it: most significant byte first.
to_bytes_big_endian(self) ==
    LET n == bytes(self.ty)
        v == Truncate(self.raw, n)
    IN  [i \in 1..n |-> v[n + 1 - i]]

to_bytes(self) ==
    LET n == bytes(self.ty)
        v == Truncate(self.raw, n)
    IN  [i \in 1..n |-> v[i]]

binop(op, self, other) ==
    Integer(self.ty,
            AsU64(apply(op, typed(self.ty, self.raw), typed(self.ty, other.raw)), FALSE))

bitnot(self) == Integer(self.ty, AsU64(not(typed(self.ty, self.raw)), FALSE))

equal(self, other) == typed(self.ty, self.raw) = typed(self.ty, other.raw)

\* cast as a slip would have it: the source is always read as unsigned.
cast_unsigned(self, new_type, signed) ==
    LET src == AsU64(typed(self.ty, self.raw), FALSE)
    IN  Integer(new_type, AsU64(typed(new_type, src), FALSE))

cast(self, new_type, signed) ==
    LET src == AsU64(typed(self.ty, self.raw), signed)
    IN  Integer(new_type, AsU64(typed(new_type, src), FALSE))

flags(target) ==
    Flags(\A i \in 1..Len(target) : target[i] = 0, IsNegative(target), FALSE)

flagged(op, self, other) ==
    LET a == typed(self.ty, self.raw)
        b == typed(self.ty, other.raw)
        target == apply(op, a, b)
        f == flags(target)
    IN  [int |-> Integer(self.ty, AsU64(target, TRUE)),
         flags |->
            CASE op = "wrapping_add" -> Flags(f.zero, f.sign, overflowing_add(a, b))
              [] op = "wrapping_sub" -> Flags(f.zero, f.sign, overflowing_sub(a, b))
              [] op = "wrapping_mul" -> Flags(FALSE, FALSE, overflowing_mul(a, b))
              [] op = "bitand" -> Flags(f.zero, f.sign, FALSE)
              [] op = "bitor" -> Flags(f.zero, f.sign, FALSE)]

flagged_add(self, other) == flagged("wrapping_add", self, other)

flagged_sub(self, other) == flagged("wrapping_sub", self, other)

flagged_mul(self, other) == flagged("wrapping_mul", self, other)

flagged_and(self, other) == flagged("bitand", self, other)

flagged_or(self, other) == flagged("bitor", self, other)

-----------------------------------------------------------------------------
(* The integers the operations are tried on: every 8-bit value, every      *)
(* wider width's boundary patterns, the values of the repository's tests   *)
(* and documentation, and, since flagged! stores `target as u64` of a      *)
(* signed target, the sign-extended raw value of each negative one.        *)

LowBytes == {0, 1, 10, 56, 100, 127, 128, 130, 150, 200, 240, 255}

EdgeBytes == {0, 1, 240, 255}

TopBytes == {0, 127, 128, 255}

Word(lo, mid, hi, n) == [i \in 1..n |-> IF i = 1 THEN lo ELSE IF i = n THEN hi ELSE mid]

Patterns(t) ==
    IF t = "N8" THEN {<<b>> : b \in LowBytes}
    ELSE {Word(lo, mid, hi, bytes(t)) : lo \in EdgeBytes, mid \in {0, 255}, hi \in TopBytes}
         \cup {Word(239, 0, 171, bytes(t))}

AllPatterns(t) ==
    IF t = "N8" THEN {<<b>> : b \in 0..(ByteRange - 1)} ELSE Patterns(t)

\* Integers as the constructors and the unsigned operations leave them.
Samples(t) == {Integer(t, ZeroExtend(v, RawBytes)) : v \in Patterns(t)}

\* Integers of every raw form the operations produce.
Inputs(t) ==
    {Integer(t, ZeroExtend(v, RawBytes)) : v \in AllPatterns(t)}
    \cup {Integer(t, SignExtend(v, RawBytes)) : v \in Patterns(t)}

NoFlags == Flags(FALSE, FALSE, FALSE)

NoInteger == Integer("N8", Fill(RawBytes, 0))

Record(op, a, b, res, f, signed) ==
    [op |-> op, a |-> a, b |-> b, res |-> res, flags |-> f, signed |-> signed]

NumIdle ==
    /\ x = NoInteger
    /\ last = Record("none", NoInteger, NoInteger, NoInteger, NoFlags, FALSE)
    /\ buf = [bytes |-> <<>>, of |-> NoInteger]

NumInit ==
    /\ x \in UNION {Inputs(t) : t \in DataType}
    /\ last = Record("new", NoInteger, NoInteger, x, NoFlags, FALSE)
    /\ buf = [bytes |-> <<>>, of |-> NoInteger]

\* The other operand: every 8-bit value, the patterns of a wider width, or
\* the integer itself.
Operands == {Integer(x.ty, ZeroExtend(v, RawBytes)) : v \in AllPatterns(x.ty)} \cup {x}

\* Each behaviour is one call on the integer drawn at the start (to_bytes
\* may be followed by the from_bytes that reads its slice back).
Fresh == last.op = "new"

DoBinop(name, op) ==
    /\ Fresh
    /\ \E other \in Operands :
          /\ check_compatible(x.ty, other.ty)
          /\ last' = Record(name, x, other, binop(op, x, other), NoFlags, FALSE)
    /\ UNCHANGED <<x, buf, flowVars>>

DoFlagged(name, op) ==
    /\ Fresh
    /\ \E other \in Operands :
          /\ check_compatible(x.ty, other.ty)
          /\ LET r == flagged(op, x, other)
             IN  last' = Record(name, x, other, r.int, r.flags, TRUE)
    /\ UNCHANGED <<x, buf, flowVars>>

Add == DoBinop("add", "wrapping_add")

Sub == DoBinop("sub", "wrapping_sub")

Mul == DoBinop("mul", "wrapping_mul")

BitAnd == DoBinop("bitand", "bitand")

BitOr == DoBinop("bitor", "bitor")

FlaggedAdd == DoFlagged("flagged_add", "wrapping_add")

FlaggedSub == DoFlagged("flagged_sub", "wrapping_sub")

FlaggedMul == DoFlagged("flagged_mul", "wrapping_mul")

FlaggedAnd == DoFlagged("flagged_and", "bitand")

FlaggedOr == DoFlagged("flagged_or", "bitor")

BitNot ==
    /\ Fresh
    /\ last' = Record("bitnot", x, NoInteger, bitnot(x), NoFlags, FALSE)
    /\ UNCHANGED <<x, buf, flowVars>>

Cast ==
    /\ Fresh
    /\ \E new_type \in DataType, signed \in BOOLEAN :
          last' = Record("cast", x, NoInteger, cast(x, new_type, signed), NoFlags, signed)
    /\ UNCHANGED <<x, buf, flowVars>>

FromBool ==
    /\ Fresh
    /\ \E value \in BOOLEAN, data_type \in DataType :
          last' = Record("from_bool", NoInteger, NoInteger,
                         from_bool(value, data_type), NoFlags, value)
    /\ UNCHANGED <<x, buf, flowVars>>

ToBytes ==
    /\ Fresh
    /\ buf' = [bytes |-> to_bytes(x), of |-> x]
    /\ last' = Record("to_bytes", x, NoInteger, x, NoFlags, FALSE)
    /\ UNCHANGED <<x, flowVars>>

\* The slice handed to from_bytes is the one to_bytes produced; a type that
\* needs more bytes than the slice holds panics in the byteorder reader.
FromBytes ==
    /\ last.op = "to_bytes"
    /\ \E data_type \in DataType :
          /\ bytes(data_type) <= Len(buf.bytes)
          /\ last' = Record("from_bytes", buf.of, NoInteger,
                            from_bytes(buf.bytes, data_type), NoFlags, FALSE)
    /\ UNCHANGED <<x, buf, flowVars>>

NumNext ==
    \/ Add \/ Sub \/ Mul \/ BitAnd \/ BitOr
    \/ FlaggedAdd \/ FlaggedSub \/ FlaggedMul \/ FlaggedAnd \/ FlaggedOr
    \/ BitNot \/ Cast \/ FromBool \/ ToBytes \/ FromBytes

-----------------------------------------------------------------------------
(* Bounds of the graphs the construction is tried on.                      *)

\* CFG nodes and DDG nodes together.
MaxNodes == 3

\* CFG outgoing entries and DDG edges together.
MaxEdges == 2

-----------------------------------------------------------------------------
(* Program dependence graph: src/flow/pdg.rs.                              *)

\* Graph indices are the code's usize indices, from 0; element i of a Vec
\* is element i + 1 of the sequence that models it.
At(vec, index) == vec[index + 1]

\* The location of a node that has none.
NoLocation == <<"-", 0>>

ControlFlow(addr) == [kind |-> "ControlFlow", addr |-> addr, loc |-> NoLocation]

DataDependency(location) == [kind |-> "DataDependency", addr |-> 0, loc |-> location]

PDGEdge(kind, condition) == [kind |-> kind, condition |-> condition]

NoEdges == [key \in {} |-> <<>>]

\* Push as a slip would have it: edges.insert(key, vec![edge]).
PushOverwrite(edges, key, edge) ==
    [k \in DOMAIN edges \cup {key} |-> IF k = key THEN <<edge>> ELSE edges[k]]

\* edges.entry(key).or_insert(vec![]).push(edge)
Push(edges, key, edge) ==
    IF key \in DOMAIN edges
    THEN [edges EXCEPT ![key] = Append(@, edge)]
    ELSE edges @@ (key :> <<edge>>)

Panic(st) == [st EXCEPT !.panicked = TRUE]

\* for &out_index in &cfg.outgoing[index]: indexing cfg.edges with a key it
\* does not hold panics.
RECURSIVE OutgoingLoop(_, _, _, _, _)
OutgoingLoop(graph, index, pdg_index, outs, st) ==
    IF outs = <<>> THEN st
    ELSE LET out_index == Head(outs)
         IN  IF <<index, out_index>> \notin DOMAIN graph.edges THEN Panic(st)
             ELSE OutgoingLoop(graph, index, pdg_index, Tail(outs),
                     [st EXCEPT !.edges =
                         Push(@, <<pdg_index, out_index>>,
                              PDGEdge("ControlFlow", graph.edges[<<index, out_index>>]))])

\* for (index, node) in cfg.nodes.iter().enumerate(): indexing cfg.outgoing
\* past its end panics.
RECURSIVE CfgLoop(_, _, _)
CfgLoop(graph, index, st) ==
    IF index >= Len(graph.nodes) \/ st.panicked THEN st
    ELSE IF index >= Len(graph.outgoing) THEN Panic(st)
    ELSE LET pdg_index == Len(st.nodes)
             pushed == [st EXCEPT !.nodes = Append(@, ControlFlow(At(graph.nodes, index)))]
         IN  CfgLoop(graph, index + 1,
                     OutgoingLoop(graph, index, pdg_index, At(graph.outgoing, index), pushed))

\* DdgNodeLoop as a slip would have it: every DDG node gets a PDG node.
RECURSIVE DdgNodeLoopAll(_, _, _)
DdgNodeLoopAll(graph, index, st) ==
    IF index >= Len(graph.nodes) THEN st
    ELSE DdgNodeLoopAll(graph, index + 1,
            [st EXCEPT !.nodes = Append(@, DataDependency(At(graph.nodes, index).loc)),
                       !.ddg_node_mapping = @ @@ (index :> Len(st.nodes))])

\* for (index, node) in ddg.nodes.iter().enumerate(): a Location node gets
\* the next PDG index, any other node none.
RECURSIVE DdgNodeLoop(_, _, _)
DdgNodeLoop(graph, index, st) ==
    IF index >= Len(graph.nodes) THEN st
    ELSE LET node == At(graph.nodes, index)
         IN  IF node.kind = "Location"
             THEN DdgNodeLoop(graph, index + 1,
                     [st EXCEPT !.nodes = Append(@, DataDependency(node.loc)),
                                !.ddg_node_mapping = @ @@ (index :> Len(st.nodes))])
             ELSE DdgNodeLoop(graph, index + 1, st)

\* DdgEdgeLoop as a slip would have it: an edge is kept when its start has
\* a PDG index, and an end without one falls back on the start's.
RECURSIVE DdgEdgeLoopLoose(_, _, _)
DdgEdgeLoopLoose(graph, keys, st) ==
    IF keys = <<>> THEN st
    ELSE LET start == Head(keys)[1]
             end == Head(keys)[2]
             map == st.ddg_node_mapping
         IN  IF start \in DOMAIN map
             THEN DdgEdgeLoopLoose(graph, Tail(keys),
                     [st EXCEPT !.edges =
                         Push(@, <<map[start], IF end \in DOMAIN map THEN map[end] ELSE map[start]>>,
                              PDGEdge("DataDependency", graph.edges[<<start, end>>][1]))])
             ELSE DdgEdgeLoopLoose(graph, Tail(keys), st)

\* for &(start, end) in ddg.edges.keys(), in the order the HashMap yields
\* its keys: an edge is kept when both ends have a PDG index.
RECURSIVE DdgEdgeLoop(_, _, _)
DdgEdgeLoop(graph, keys, st) ==
    IF keys = <<>> THEN st
    ELSE LET start == Head(keys)[1]
             end == Head(keys)[2]
             map == st.ddg_node_mapping
         IN  IF start \in DOMAIN map /\ end \in DOMAIN map
             THEN DdgEdgeLoop(graph, Tail(keys),
                     [st EXCEPT !.edges =
                         Push(@, <<map[start], map[end]>>,
                              PDGEdge("DataDependency", graph.edges[<<start, end>>][1]))])
             ELSE DdgEdgeLoop(graph, Tail(keys), st)

\* ProgramDependenceGraph::new; `keys` is the order in which ddg.edges is
\* iterated.
new(cfg_, ddg_, keys) ==
    LET empty == [nodes |-> <<>>, edges |-> NoEdges,
                  ddg_node_mapping |-> [i \in {} |-> 0], panicked |-> FALSE]
        control == CfgLoop(cfg_, 0, empty)
    IN  IF control.panicked THEN control
        ELSE DdgEdgeLoop(ddg_, keys, DdgNodeLoop(ddg_, 0, control))

-----------------------------------------------------------------------------
(* Graph export: src/flow/visualize.rs and ProgramDependenceGraph's        *)
(* visualize and save_as_pdf.                                              *)

FontSize == 40

\* One statement of the graphviz document.
Line(stmt, src, dst, num, attrs) ==
    [stmt |-> stmt, src |-> src, dst |-> dst, num |-> num, attrs |-> attrs]

write_header(title, fontsize) ==
    << Line("digraph Flow {", 0, 0, 0, <<>>),
       Line("graph", 0, 0, fontsize, <<title, "Source Code Pro">>),
       Line("node", 0, 0, 0, <<"Source Code Pro">>),
       Line("edge", 0, 0, 0, <<"Source Code Pro">>) >>

write_footer == << Line("}", 0, 0, 0, <<>>) >>

\* (usize, usize) keys compare lexicographically.
KeyLess(a, b) == a[1] < b[1] \/ (a[1] = b[1] /\ a[2] < b[2])

RECURSIVE InsertKey(_, _)
InsertKey(key, sorted) ==
    IF sorted = <<>> THEN <<key>>
    ELSE IF KeyLess(key, Head(sorted)) THEN <<key>> \o sorted
    ELSE <<Head(sorted)>> \o InsertKey(key, Tail(sorted))

\* sort_by_key as a slip would have it: the entries stay as collected.
sort_skipped(entries) == entries

\* edges.sort_by_key(|edge| edge.0), a stable sort.
RECURSIVE sort_by_key(_)
sort_by_key(entries) ==
    IF entries = <<>> THEN <<>>
    ELSE InsertKey(entries[Len(entries)], sort_by_key(SubSeq(entries, 1, Len(entries) - 1)))

\* The closure visualize hands to write_edges: one style per PDGEdge.
EdgeStyles(edge_list) ==
    [i \in 1..Len(edge_list) |->
        IF edge_list[i].kind = "ControlFlow" THEN "style=solid, color=black"
        ELSE "style=dashed, color=blue"]

\* write_edges; `iter` is the order in which the HashMap yields its keys.
write_edges(edges, iter) ==
    LET sorted == sort_by_key(iter)
    IN  [i \in 1..Len(sorted) |->
            Line("->", sorted[i][1], sorted[i][2], 0, EdgeStyles(edges[sorted[i]]))]

NodeLine(index, node) ==
    IF node.kind = "ControlFlow"
    THEN Line("b", index, index, node.addr, <<"ControlFlow", NoLocation, "box">>)
    ELSE Line("b", index, index, 0, <<"DataDependency", node.loc, "ellipse">>)

visualize(graph, title, iter) ==
    write_header(<<"Program Dependence Graph for ", title>>, FontSize)
    \o [i \in 1..Len(graph.nodes) |-> NodeLine(i - 1, graph.nodes[i])]
    \o write_edges(graph.edges, iter)
    \o write_footer

\* Every order a HashMap over the keys S may be iterated in.
Orders(S) ==
    {f \in [1..Cardinality(S) -> S] : \A i, j \in 1..Cardinality(S) : i # j => f[i] # f[j]}

-----------------------------------------------------------------------------
(* The graphs the construction is tried on.  Addresses, locations and      *)
(* conditions are opaque to the construction; each node and each edge      *)
(* carries one of its own, so that a PDG node or edge names the input it   *)
(* came from.  Outgoing entries and DDG edges may name indices past the    *)
(* end of their graph, cfg.edges may lack the key of an outgoing entry,    *)
(* and cfg.outgoing may be one entry short.                                *)

AddrOf(index) == 4096 + 16 * index

LocationOf(index) == <<"loc", index>>

CfgCondition(start, end) == [graph |-> "cfg", start |-> start, end |-> end, part |-> "condition"]

DdgCondition(start, end) == [graph |-> "ddg", start |-> start, end |-> end, part |-> "condition"]

DdgAuxiliary(start, end) == [graph |-> "ddg", start |-> start, end |-> end, part |-> "auxiliary"]

\* Lists of `len` entries drawn from S.
ListsOf(S, len) == [1..len -> S]

\* The outgoing entries as one list of (source, target), ordered by source.
OutgoingEntries(n, targets, len) ==
    {es \in ListsOf((0..(n - 1)) \X targets, len) :
        \A i \in 1..(Len(es) - 1) : es[i][1] <= es[i + 1][1]}

TargetsOf(es, index) ==
    LET RECURSIVE Pick(_)
        Pick(i) == IF i > Len(es) THEN <<>>
                   ELSE IF es[i][1] = index THEN <<es[i][2]>> \o Pick(i + 1)
                   ELSE Pick(i + 1)
    IN  Pick(1)

EntrySet(es) == {es[i] : i \in 1..Len(es)}

ControlFlowGraphs(n, targets, len) ==
    {[nodes |-> [i \in 1..n |-> AddrOf(i - 1)],
      outgoing |-> [i \in 1..(n - short) |-> TargetsOf(es, i - 1)],
      edges |-> [key \in EntrySet(es) \ missing |-> CfgCondition(key[1], key[2])]] :
        es \in OutgoingEntries(n, targets, len),
        short \in {0, 1} \cap (0..n),
        missing \in {{}} \cup {{e} : e \in (0..(n - 1)) \X targets}}

DependencyNodes(m) ==
    {[i \in 1..m |-> IF i \in locs THEN [kind |-> "Location", loc |-> LocationOf(i - 1)]
                     ELSE [kind |-> "Other", loc |-> NoLocation]] : locs \in SUBSET (1..m)}

\* Sets of `len` DDG edges, each a strictly ascending list of codes
\* start * (m + 1) + end.
DdgEdgeSets(m, len) ==
    LET codes == 0..((m + 1) * (m + 1) - 1)
        lists == {es \in ListsOf(codes, len) : \A i \in 1..(Len(es) - 1) : es[i] < es[i + 1]}
    IN  {{<<es[i] \div (m + 1), es[i] % (m + 1)>> : i \in 1..Len(es)} : es \in lists}

DataDependencyGraphs(m, len) ==
    {[nodes |-> nodes,
      edges |-> [key \in keys |-> <<DdgCondition(key[1], key[2]), DdgAuxiliary(key[1], key[2])>>]] :
        nodes \in DependencyNodes(m), keys \in DdgEdgeSets(m, len)}

Title == "Program Dependence Graph"

NoSave == [pc |-> "idle", result |-> "none", dot |-> "not run", file |-> <<>>]

NoGraph == [nodes |-> <<>>, edges |-> NoEdges]

FlowIdle ==
    /\ cfg = [nodes |-> <<>>, outgoing |-> <<>>, edges |-> NoEdges]
    /\ ddg = [nodes |-> <<>>, edges |-> NoEdges]
    /\ pc = "off"
    /\ pdg = NoGraph
    /\ rendered = {}
    /\ save = NoSave

FlowInit ==
    /\ \E n \in 0..MaxNodes, m \in 0..MaxNodes, c \in 0..MaxEdges, d \in 0..MaxEdges :
          /\ n + m <= MaxNodes
          /\ c + d <= MaxEdges
          /\ cfg \in ControlFlowGraphs(n, 0..(n + m), c)
          /\ ddg \in DataDependencyGraphs(m, d)
    /\ pc = "start"
    /\ pdg = NoGraph
    /\ rendered = {}
    /\ save = NoSave
    /\ NumIdle

\* ProgramDependenceGraph::new(cfg, ddg) returns the graph or panics.
New ==
    /\ pc = "start"
    /\ \E keys \in Orders(DOMAIN ddg.edges) :
          LET st == new(cfg, ddg, keys)
          IN  IF st.panicked
              THEN /\ pc' = "panicked"
                   /\ UNCHANGED pdg
              ELSE /\ pc' = "built"
                   /\ pdg' = [nodes |-> st.nodes, edges |-> st.edges]
    /\ UNCHANGED <<cfg, ddg, rendered, save, numVars>>

\* pdg.visualize(target, title) on a target whose writes succeed.
Visualize ==
    /\ pc = "built"
    /\ \E iter \in Orders(DOMAIN pdg.edges) :
          rendered' = rendered \cup {visualize(pdg, Title, iter)}
    /\ UNCHANGED <<cfg, ddg, pc, pdg, save, numVars>>

Return(result) == [save EXCEPT !.pc = "returned", !.result = result]

\* save_as_pdf: fs::create_dir_all("target/out/pdg")?
SaveCreateDir ==
    /\ pc = "built"
    /\ save.pc = "idle"
    /\ \E ok \in BOOLEAN :
          save' = IF ok THEN [save EXCEPT !.pc = "create file"] ELSE Return("Err")
    /\ UNCHANGED <<cfg, ddg, pc, pdg, rendered, numVars>>

\* save_as_pdf: fs::File::create(&path)?
SaveCreateFile ==
    /\ save.pc = "create file"
    /\ \E ok \in BOOLEAN :
          save' = IF ok THEN [save EXCEPT !.pc = "visualize"] ELSE Return("Err")
    /\ UNCHANGED <<cfg, ddg, pc, pdg, rendered, numVars>>

\* save_as_pdf: self.visualize(&mut file, title)?; a write may fail.
SaveVisualize ==
    /\ save.pc = "visualize"
    /\ \E ok \in BOOLEAN, iter \in Orders(DOMAIN pdg.edges) :
          save' = IF ok
                  THEN [save EXCEPT !.pc = "dot", !.file = visualize(pdg, Title, iter)]
                  ELSE Return("Err")
    /\ UNCHANGED <<cfg, ddg, pc, pdg, rendered, numVars>>

\* save_as_pdf: Command::new("dot")...status()?; Ok(()).  status() is an
\* Err only when the tool could not be started.
SaveRunDot ==
    /\ save.pc = "dot"
    /\ \E outcome \in {"not started", "exit 0", "exit 1"} :
          save' = [Return(IF outcome = "not started" THEN "Err" ELSE "Ok")
                      EXCEPT !.dot = outcome]
    /\ UNCHANGED <<cfg, ddg, pc, pdg, rendered, numVars>>

FlowNext ==
    \/ New
    \/ Visualize
    \/ SaveCreateDir
    \/ SaveCreateFile
    \/ SaveVisualize
    \/ SaveRunDot

SpecFlow == FlowInit /\ [][FlowNext]_vars

NumStart == NumInit /\ FlowIdle

SpecNum == NumStart /\ [][NumNext]_vars

-----------------------------------------------------------------------------
(* Claims about the machine integers.                                      *)

\* The operand bits an operation of width t reads from a raw value.
Low(int) == Truncate(int.raw, bytes(int.ty))

\* The unsigned number a one- or two-byte pattern stands for.
Val(v) == IF Len(v) = 1 THEN v[1] ELSE v[1] + ByteRange * v[2]

\* The signed number a one- or two-byte pattern stands for.
SVal(v) == IF IsNegative(v) THEN Val(v) - 2 ^ (8 * Len(v)) ELSE Val(v)

\* The exact signed sum or difference, in two's complement one byte wider
\* than the operands (no wrap is possible there).
ExactWide(op, a, b) ==
    LET w == Len(a) + 1
    IN  IF op = "flagged_add"
        THEN RippleAdd(SignExtend(a, w), SignExtend(b, w), 0)
        ELSE RippleAdd(SignExtend(a, w), not(SignExtend(b, w)), 1)

C5_Flagged == last.op \in {"flagged_add", "flagged_sub"}

C5_Expected(op, a, b) ==
    LET exact == ExactWide(op, a, b)
        wrapped == Truncate(exact, Len(a))
    IN  Flags(\A i \in 1..Len(a) : wrapped[i] = 0,
              wrapped[Len(a)] >= ByteSignBit,
              exact # SignExtend(wrapped, Len(a) + 1))

C5_ExpectedSmall(op, a, b) ==
    LET w == 8 * Len(a)
        exact == IF op = "flagged_add" THEN SVal(a) + SVal(b) ELSE SVal(a) - SVal(b)
        wrapped == exact % (2 ^ w)
    IN  Flags(wrapped = 0,
              wrapped >= 2 ^ (w - 1),
              exact < -(2 ^ (w - 1)) \/ exact > 2 ^ (w - 1) - 1)

C5_Example(op, a, b, f) ==
    (last.op = op /\ last.a.ty = "N8" /\ Low(last.a) = <<a>> /\ Low(last.b) = <<b>>)
        => last.flags = f

\* C5: flagged_add and flagged_sub return zero = (the wrapped result is 0),
\* sign = (the top bit of the wrapped result is set) and overflow = (the
\* exact signed sum or difference does not fit the width), at every width;
\* at width 8, 150+100 gives (false, true, false), 100+100 gives (false,
\* true, true) and 130-10 gives (false, false, true).
C5_FlagsOfAddSub ==
    /\ C5_Flagged =>
          /\ last.flags = C5_Expected(last.op, Low(last.a), Low(last.b))
          /\ bytes(last.a.ty) <= 2 =>
                last.flags = C5_ExpectedSmall(last.op, Low(last.a), Low(last.b))
          /\ Low(last.res) = Truncate(ExactWide(last.op, Low(last.a), Low(last.b)),
                                      bytes(last.a.ty))
    /\ C5_Example("flagged_add", 150, 100, Flags(FALSE, TRUE, FALSE))
    /\ C5_Example("flagged_add", 100, 100, Flags(FALSE, TRUE, TRUE))
    /\ C5_Example("flagged_sub", 130, 10, Flags(FALSE, FALSE, TRUE))

C5_Witness ==
    /\ last.op = "flagged_sub"
    /\ last.a.ty = "N64"
    /\ last.flags.overflow
    /\ ~last.flags.sign

C6_Cast == last.op = "cast"

\* Byte i of the source extended without bound: its own bytes, then the
\* fill the signedness asks for.
C6_Extended(v, signed, i) ==
    IF i <= Len(v) THEN v[i]
    ELSE IF signed /\ v[Len(v)] >= ByteSignBit THEN ByteRange - 1 ELSE 0

\* C6: cast(new_type, signed) returns an Integer of the target width: the
\* source sign-extended when the target is wider and signed is true, zero-
\* extended when it is wider and signed is false, and the source's low
\* bits when the target is narrower; 8-bit 0xF0 gives 0xFFF0 as a signed
\* and 0x00F0 as an unsigned 16-bit cast.
C6_CastValue ==
    /\ C6_Cast =>
          LET v == Low(last.a)
              n == bytes(last.res.ty)
          IN  /\ last.res.ty \in DataType
              /\ n # Len(v) =>
                    \A i \in 1..n : Low(last.res)[i] = C6_Extended(v, last.signed, i)
    /\ (C6_Cast /\ last.a.ty = "N8" /\ Low(last.a) = <<240>> /\ last.res.ty = "N16") =>
          Val(Low(last.res)) = (IF last.signed THEN 65520 ELSE 240)

C6_Witness ==
    /\ C6_Cast
    /\ last.a.ty = "N8"
    /\ Low(last.a) = <<240>>
    /\ last.res.ty = "N16"
    /\ last.signed
    /\ last.res.raw = <<240, 255, 0, 0, 0, 0, 0, 0>>

\* C7: to_bytes(x) has exactly bytes() bytes, least significant first, and
\* from_bytes(to_bytes(x), t) == x for an x of type t; 0xabef as a 16-bit
\* integer is written as [0xef, 0xab].
C7_ByteRoundTrip ==
    /\ last.op \in {"to_bytes", "from_bytes"} =>
          /\ buf.of = x
          /\ Len(buf.bytes) = bytes(x.ty)
          /\ \A i \in 1..Len(buf.bytes) : buf.bytes[i] = x.raw[i]
          /\ (x.ty = "N16" /\ Val(Low(x)) = 44015) => buf.bytes = <<239, 171>>
    /\ (last.op = "from_bytes" /\ last.res.ty = last.a.ty) =>
          /\ equal(last.res, last.a)
          /\ equal(last.a, last.res)

C7_Witness ==
    /\ last.op = "from_bytes"
    /\ last.a.ty = "N32"
    /\ last.res.ty = "N32"
    /\ last.a.raw # last.res.raw
    /\ buf.bytes = <<240, 255, 255, 255>>

Clean(int) == int.raw = ZeroExtend(Low(int), RawBytes)

IntegerOps ==
    {"from_bool", "from_bytes", "add", "sub", "mul", "bitand", "bitor", "bitnot", "cast",
     "flagged_add", "flagged_sub", "flagged_mul", "flagged_and", "flagged_or"}

\* C10: every operation that returns an Integer, given operands whose raw
\* values are below 2^width, returns a raw value below 2^width of the
\* result's type.
C10_RawWithinWidth ==
    (last.op \in IntegerOps /\ Clean(last.a) /\ Clean(last.b)) => Clean(last.res)

-----------------------------------------------------------------------------
(* Claims about the program dependence graph and its export.               *)

IsLocationNode(node) == node.kind = "Location"

\* The location-typed DDG nodes, in DDG order.
LocationNodes == SelectSeq(ddg.nodes, IsLocationNode)

\* DDG index i names a location-typed node of the DDG.
IsLocation(i) == i \in 0..(Len(ddg.nodes) - 1) /\ IsLocationNode(At(ddg.nodes, i))

\* The PDG index of the location-typed DDG node i: the CFG nodes and the
\* location-typed DDG nodes before it come first.
PdgIndexOf(i) == Len(cfg.nodes) + Cardinality({j \in 0..(i - 1) : IsLocation(j)})

EdgesAt(key) == IF key \in DOMAIN pdg.edges THEN pdg.edges[key] ELSE <<>>

Occurrences(list, item) == Cardinality({i \in 1..Len(list) : list[i] = item})

AllPdgEdges == UNION {{pdg.edges[key][i] : i \in 1..Len(pdg.edges[key])} : key \in DOMAIN pdg.edges}

\* C1: the graph new returns has n + k nodes: node i < n is ControlFlow(the
\* address of CFG node i), and nodes n .. n+k-1 are DataDependency(location)
\* for the k location-typed DDG nodes in DDG order; other DDG nodes get no
\* PDG node.
C1_NodeLayout ==
    pc = "built" =>
        LET n == Len(cfg.nodes)
            k == Len(LocationNodes)
        IN  /\ Len(pdg.nodes) = n + k
            /\ \A i \in 0..(n - 1) : At(pdg.nodes, i) = ControlFlow(At(cfg.nodes, i))
            /\ \A j \in 1..k : pdg.nodes[n + j] = DataDependency(LocationNodes[j].loc)

C1_Witness ==
    /\ pc = "built"
    /\ Len(cfg.nodes) = 1
    /\ Len(ddg.nodes) = 2
    /\ ~IsLocation(0)
    /\ IsLocation(1)
    /\ Len(pdg.nodes) = 2

\* C2: a DDG edge with a non-location end leaves no PDGEdge, and every
\* DataDependency PDGEdge sits at the key made of the PDG indices of two
\* location-typed DDG nodes that a DDG edge joins.
C2_DroppedEdges ==
    pc = "built" =>
        /\ \A key \in DOMAIN pdg.edges : \A i \in 1..Len(pdg.edges[key]) :
              pdg.edges[key][i].kind = "DataDependency" =>
                  \E e \in DOMAIN ddg.edges :
                      /\ IsLocation(e[1])
                      /\ IsLocation(e[2])
                      /\ key = <<PdgIndexOf(e[1]), PdgIndexOf(e[2])>>
                      /\ pdg.edges[key][i].condition = ddg.edges[e][1]
        /\ \A e \in DOMAIN ddg.edges :
              ~(IsLocation(e[1]) /\ IsLocation(e[2])) =>
                  \A edge \in AllPdgEdges :
                      edge.condition \notin {ddg.edges[e][1], ddg.edges[e][2]}

C2_Witness ==
    /\ pc = "built"
    /\ \E e \in DOMAIN ddg.edges :
          /\ IsLocation(e[1])
          /\ e[2] \in 0..(Len(ddg.nodes) - 1)
          /\ ~IsLocation(e[2])
    /\ \E edge \in AllPdgEdges : edge.kind = "DataDependency"

\* C3: new appends and never overwrites: each CFG outgoing entry (s, t)
\* leaves its own ControlFlow PDGEdge with the edge's predicate in the list
\* at key (s, t), each DDG edge between location-typed nodes leaves one
\* DataDependency PDGEdge with its primary predicate in the list at the
\* mapped key, and where a CFG edge and a DDG edge share a key the list
\* holds both.
C3_AppendNeverOverwrite ==
    pc = "built" =>
        /\ \A s \in 0..(Len(cfg.nodes) - 1) :
              \A t \in {At(cfg.outgoing, s)[i] : i \in 1..Len(At(cfg.outgoing, s))} :
                  Occurrences(EdgesAt(<<s, t>>), PDGEdge("ControlFlow", cfg.edges[<<s, t>>]))
                      = Occurrences(At(cfg.outgoing, s), t)
        /\ \A e \in DOMAIN ddg.edges :
              (IsLocation(e[1]) /\ IsLocation(e[2])) =>
                  Occurrences(EdgesAt(<<PdgIndexOf(e[1]), PdgIndexOf(e[2])>>),
                              PDGEdge("DataDependency", ddg.edges[e][1])) = 1
        /\ \A s \in 0..(Len(cfg.nodes) - 1), e \in DOMAIN ddg.edges :
              \A i \in 1..Len(At(cfg.outgoing, s)) :
                  (/\ IsLocation(e[1])
                   /\ IsLocation(e[2])
                   /\ <<s, At(cfg.outgoing, s)[i]>> = <<PdgIndexOf(e[1]), PdgIndexOf(e[2])>>) =>
                      Len(EdgesAt(<<PdgIndexOf(e[1]), PdgIndexOf(e[2])>>)) >= 2

C3_Witness ==
    /\ pc = "built"
    /\ \E key \in DOMAIN pdg.edges :
          /\ Len(pdg.edges[key]) = 2
          /\ pdg.edges[key][1] = pdg.edges[key][2]

IsEdgeLine(line) == line.stmt = "->"

EdgeLines(doc) == SelectSeq(doc, IsEdgeLine)

\* C4: however the edge map is iterated, visualize writes the same text,
\* and in it write_edges' statements come once per key, ascending by
\* (source, target).
C4_ExportDeterminism ==
    /\ Cardinality(rendered) <= 1
    /\ \A doc \in rendered :
          LET lines == EdgeLines(doc)
          IN  /\ save.file # <<>> => save.file = doc
              /\ Len(lines) = Cardinality(DOMAIN pdg.edges)
              /\ {<<lines[i].src, lines[i].dst>> : i \in 1..Len(lines)} = DOMAIN pdg.edges
              /\ \A i \in 1..(Len(lines) - 1) :
                    \/ lines[i].src < lines[i + 1].src
                    \/ /\ lines[i].src = lines[i + 1].src
                       /\ lines[i].dst < lines[i + 1].dst

C4_Witness ==
    /\ Cardinality(rendered) = 1
    /\ Cardinality(DOMAIN pdg.edges) >= 2
    /\ save.file # <<>>

\* C8: new returns a graph only for well-formed inputs: a CFG outgoing
\* entry or a DDG edge that names an index past the end of its graph makes
\* it abort, so no returned graph has skipped such an edge or holds a key
\* that names no PDG node or a node of the other graph.
C8_FailFast ==
    pc = "built" =>
        /\ \A s \in 1..Len(cfg.outgoing) : \A i \in 1..Len(cfg.outgoing[s]) :
              cfg.outgoing[s][i] < Len(cfg.nodes)
        /\ \A e \in DOMAIN ddg.edges : e[1] < Len(ddg.nodes) /\ e[2] < Len(ddg.nodes)
        /\ \A key \in DOMAIN pdg.edges :
              /\ key[1] < Len(pdg.nodes)
              /\ key[2] < Len(pdg.nodes)
              /\ (key[1] < Len(cfg.nodes)) = (key[2] < Len(cfg.nodes))

\* C9: when the layout tool runs and exits with a non-zero status,
\* save_as_pdf returns an error.
C9_ToolFailureIsError ==
    (save.pc = "returned" /\ save.dot = "exit 1") => save.result = "Err"

====
